---- MODULE Spec2Model ----
(***************************************************************************)
(* Business Finder backend (src/app.py): the retrying request executor,    *)
(* the paginated nearby search, the per-place detail lookup with its       *)
(* filter, and the /search handler that drives them.                       *)
(*                                                                         *)
(* Python values are modelled as follows.  A dict is a function whose      *)
(* domain is the set of keys present.  A string the code inspects (the     *)
(* website, the query) is a sequence of one-character strings; a string    *)
(* the code only passes along (a place id, a token, a status) is a TLA+    *)
(* string.  An error message is the sequence of the parts of its f-string. *)
(* Durations are in tenths of a second.                                    *)
(***************************************************************************)
EXTENDS Integers, Sequences, FiniteSets, TLC

\* ---------------------------------------------------------------- bounds
\* largest max_retries argument tried when the executor is checked alone
MaxRetriesBound == 4
\* the remote serves at most this many result pages for one search
MaxPages == 2
\* the remote serves at most this many place entries over all pages
MaxPlaces == 2
\* the remote answers at most this many calls of one /search request with a
\* retryable condition (rate limit, timeout, transport fault)
MaxFaults == 3
\* review counts and thresholds tried on filter_place alone go up to this
MaxReviews == 3

\* ------------------------------------------------------ program constants
REQUEST_DELAY == 1
PAGE_TOKEN_DELAY == 20
MAX_RETRIES == 3
BACKOFF_FACTOR == 2
MAX_RADIUS == 50000
DEFAULT_RADIUS == 5000
DEFAULT_MIN_REVIEWS == 0

NEARBY_SEARCH_URL == "nearbysearch/json"
PLACE_DETAILS_URL == "details/json"
GOOGLE_PLACES_API_KEY == "places-key"
DETAIL_FIELDS ==
    "name,formatted_address,formatted_phone_number,website,user_ratings_total,rating,place_id"

\* ---------------------------------------------------------- Python values
\* None, for the values that are otherwise sequences (websites, messages)
None == <<"<None>">>
\* None, for the values that are otherwise opaque strings (place ids, tokens)
NoneStr == "<None>"
\* None, for the values that are otherwise dicts
NoData == [none |-> TRUE]
EmptyDict == [k \in {} |-> ""]

\* dict.get(key, default)
Get(d, k, default) == IF k \in DOMAIN d THEN d[k] ELSE default

\* `not s` for a value that is a sequence of characters or None
Falsy(s) == s = None \/ s = <<>>
\* `not s` for an opaque string or None
FalsyStr(s) == s = NoneStr \/ s = ""

Seconds(n) == n * 10

RECURSIVE Pow(_, _)
Pow(b, e) == IF e = 0 THEN 1 ELSE b * Pow(b, e - 1)

\* str.lower(), on the ASCII letters
UpperToLower ==
    [A |-> "a", B |-> "b", C |-> "c", D |-> "d", E |-> "e", F |-> "f", G |-> "g",
     H |-> "h", I |-> "i", J |-> "j", K |-> "k", L |-> "l", M |-> "m", N |-> "n",
     O |-> "o", P |-> "p", Q |-> "q", R |-> "r", S |-> "s", T |-> "t", U |-> "u",
     V |-> "v", W |-> "w", X |-> "x", Y |-> "y", Z |-> "z"]
LowerChar(c) == IF c \in DOMAIN UpperToLower THEN UpperToLower[c] ELSE c
Lower(s) == [i \in 1..Len(s) |-> LowerChar(s[i])]

\* `sub in s` for strings
Contains(sub, s) ==
    \E i \in 0..(Len(s) - Len(sub)) : SubSeq(s, i + 1, i + Len(sub)) = sub

\* str.strip()
Whitespace == {" ", "\t", "\n"}
RECURSIVE LStrip(_)
LStrip(s) == IF s # <<>> /\ Head(s) \in Whitespace THEN LStrip(Tail(s)) ELSE s
RECURSIVE RStrip(_)
RStrip(s) ==
    IF s # <<>> /\ s[Len(s)] \in Whitespace THEN RStrip(SubSeq(s, 1, Len(s) - 1)) ELSE s
Strip(s) == RStrip(LStrip(s))

FACEBOOK_COM == <<"f", "a", "c", "e", "b", "o", "o", "k", ".", "c", "o", "m">>

\* ----------------------------------------------------------------- state
VARIABLES
    \* the /search handler, search()
    pc,               \* position of the handler
    request,          \* the JSON body of the incoming request (a dict)
    response,         \* the (status, body) the handler returned
    query,            \* query, stripped
    center,           \* <<lat, lng>> after float()
    radius_meters,    \* radius_meters after int() and the clamp
    min_reviews,      \* min_reviews after int()
    nearby_results,   \* first component of what nearby_search returned
    error,            \* second component of what nearby_search returned
    place_i,          \* index of the next `place` of the for loop
    filtered_results, \* accumulator of the for loop
    \* nearby_search()
    all_results,      \* accumulator
    next_page_token,  \* token of the page just read
    \* make_request_with_retry()
    exec_pc,          \* "idle", "for", "wait", "sleep", "returned"
    url, params, max_retries,
    attempt,          \* the loop variable
    ret,              \* the (data, error) pair returned
    \* the world, as observed
    trace,            \* the GETs, answers and sleeps of this invocation, in order
    last_answer,      \* what the last GET was answered with (NoAnswer while none)
    last_body,        \* the JSON body of the last answer (NoData: it raised)
    waited,           \* value of slept when the last GET was issued
    slept,            \* tenths of a second slept since the last HTTP answer
    outstanding,      \* HTTP calls issued and not yet answered
    http_calls,       \* HTTP GETs issued for this request
    faults,           \* retryable conditions the remote has answered with so far
    invocations,      \* executor invocations made for this request, by url
    pages,            \* what the remote served on each successful search page:
                      \* its results and its next_page_token (NoneStr: none)
    catalogue,        \* the remote's data set as far as it has shown: the body
                      \* it serves for each place whose details it has served
    endless,          \* the remote announces a further page whenever it likes;
                      \* the observers above are then switched off
    detail_bodies,    \* the body the remote served on each successful details call
    detail_status,    \* per reference handled: "no_id", "failed", "fetched"
    kept_from         \* per entry of filtered_results: index of its reference

\* what is fixed while the request is served
given_vars == <<request, endless>>
io_vars == <<given_vars, response>>
local_vars == <<query, center, radius_meters, min_reviews>>
found_vars == <<nearby_results, error>>
enrich_vars == <<place_i, filtered_results, detail_status, kept_from>>
walk_vars == <<all_results, next_page_token>>
handler_vars == <<pc, io_vars, local_vars, found_vars, enrich_vars, walk_vars>>
\* what a call of the executor creates and its return discards
frame_vars == <<exec_pc, url, params, max_retries, attempt, ret, trace, last_answer,
                last_body, waited>>
env_vars == <<slept, outstanding, http_calls, faults>>
seen_vars == <<invocations, pages, detail_bodies, catalogue>>
vars == <<handler_vars, frame_vars, env_vars, seen_vars>>

\* ------------------------------------------------------- the remote side
PlaceIds == {"p1", "p2"}
Tokens == {"tokA", "tokB"}
ReviewCounts == {5, 25}
Websites == {None,
             <<"F", "A", "C", "E", "B", "O", "O", "K", ".", "c", "o", "m", "/", "x">>,
             <<"e", "x", ".", "c", "o", "m">>}

\* one entry of a search page: with a place_id, or without one
PlaceEntries == {[place_id |-> p] : p \in PlaceIds} \cup {[name |-> "anon"]}

RECURSIVE SeqsUpTo(_, _)
SeqsUpTo(S, n) ==
    IF n = 0 THEN {<<>>}
    ELSE LET shorter == SeqsUpTo(S, n - 1)
         IN  shorter \cup {Append(s, x) : s \in {t \in shorter : Len(t) = n - 1}, x \in S}

\* bodies that carry a terminal status, or none at all
FailureBodies ==
    {[status |-> s] : s \in {"INVALID_REQUEST", "UNKNOWN_ERROR"}}
    \cup {[status |-> "REQUEST_DENIED", error_message |-> "bad key"]}
    \cup {[error_message |-> "no status"]}

\* the body of a rate-limited answer
RateLimitBodies == {[status |-> "OVER_QUERY_LIMIT"]}

\* the remote may still answer with a retryable condition
MayFault == faults < (IF pc = "direct" THEN MaxRetriesBound ELSE MaxFaults)

\* bodies of a successful search page: room is how many more entries the
\* remote may serve, more is whether it may announce a further page
SearchBodies(room, more) ==
    {[status |-> "OK", results |-> r] : r \in SeqsUpTo(PlaceEntries, room)}
    \cup {[status |-> "OK", results |-> r, next_page_token |-> t] :
            r \in SeqsUpTo(PlaceEntries, room), t \in IF more THEN Tokens ELSE {}}
    \cup {[status |-> "ZERO_RESULTS"]}

\* the `result` object of a details body for place p
DetailResults(p) ==
    {[place_id |-> p, name |-> "Shop", user_ratings_total |-> n, website |-> w] :
        n \in ReviewCounts, w \in Websites}
    \cup {[place_id |-> p, name |-> "Shop", user_ratings_total |-> n] : n \in ReviewCounts}
    \cup {EmptyDict}

DetailBodies(p) ==
    {[status |-> "OK", result |-> d] : d \in DetailResults(p)}
    \cup {[status |-> "ZERO_RESULTS"]}

\* what the remote may answer to the outstanding call
Bodies ==
    FailureBodies \cup (IF MayFault THEN RateLimitBodies ELSE {}) \cup
    IF url = NEARBY_SEARCH_URL
    THEN SearchBodies(MaxPlaces - Len(all_results), endless \/ Len(pages) + 1 < MaxPages)
    ELSE IF params.place_id \in DOMAIN catalogue
         THEN {catalogue[params.place_id]}
         ELSE DetailBodies(params.place_id)

Faults == {"connection refused"}

\* ------------------------------------------- make_request_with_retry
NoReturn == [data |-> NoData, error |-> None]
NoAnswer == [ev |-> "", what |-> ""]

\* the frame of a fresh invocation make_request_with_retry(u, p, m)
Invoke(u, p, m) ==
    /\ url' = u
    /\ params' = p
    /\ max_retries' = m
    /\ attempt' = 0
    /\ exec_pc' = "for"
    /\ ret' = NoReturn
    /\ trace' = <<>>
    /\ last_answer' = NoAnswer
    /\ last_body' = NoData
    /\ waited' = 0
    /\ invocations' = (IF endless THEN invocations ELSE [invocations EXCEPT ![u] = @ + 1])

\* the caller has taken the returned pair: the frame is gone
Pop ==
    /\ exec_pc' = "idle"
    /\ url' = ""
    /\ params' = EmptyDict
    /\ max_retries' = 0
    /\ attempt' = 0
    /\ ret' = NoReturn
    /\ trace' = <<>>
    /\ last_answer' = NoAnswer
    /\ last_body' = NoData
    /\ waited' = 0

\* an event of the trace: "get" and "answer" carry the attempt index, "sleep"
\* the duration
Event(e, n) == [ev |-> e, n |-> n]

Return(data, err) ==
    /\ ret' = [data |-> data, error |-> err]
    /\ exec_pc' = "returned"

\* the delay slept before a retry of zero-based attempt k
Backoff(k) == Seconds(Pow(BACKOFF_FACTOR, k))

\* mutant of ExecGet: the loop runs one iteration too many
ExecGetOneTooMany ==
    /\ exec_pc = "for"
    /\ attempt <= max_retries
    /\ exec_pc' = "wait"
    /\ trace' = Append(trace, Event("get", attempt))
    /\ last_answer' = NoAnswer
    /\ outstanding' = outstanding + 1
    /\ http_calls' = (IF endless THEN http_calls ELSE http_calls + 1)
    /\ waited' = slept
    /\ UNCHANGED <<handler_vars, url, params, max_retries, attempt, ret, last_body, slept,
                   faults, seen_vars>>

\* line 34, range(max_retries) has a next value: line 36 issues the GET
ExecGet ==
    /\ exec_pc = "for"
    /\ attempt < max_retries
    /\ exec_pc' = "wait"
    /\ trace' = Append(trace, Event("get", attempt))
    /\ last_answer' = NoAnswer
    /\ outstanding' = outstanding + 1
    /\ http_calls' = (IF endless THEN http_calls ELSE http_calls + 1)
    /\ waited' = slept
    /\ UNCHANGED <<handler_vars, url, params, max_retries, attempt, ret, last_body, slept,
                   faults, seen_vars>>

\* line 34, range(max_retries) is exhausted: line 68
ExecExhausted ==
    /\ exec_pc = "for"
    /\ attempt >= max_retries
    /\ Return(NoData, <<"Max retries exceeded">>)
    /\ UNCHANGED <<handler_vars, url, params, max_retries, attempt, trace, last_answer,
                   last_body, waited, env_vars, seen_vars>>

\* what a successful search body carries
Served(body) ==
    [results |-> Get(body, "results", <<>>),
     token |-> Get(body, "next_page_token", NoneStr)]

\* the outstanding GET is answered: ev is "status" (a body came back, what is
\* its status) or "raise" (what is the exception class)
Answered(ev, what, body) ==
    /\ trace' = Append(trace, Event("answer", attempt))
    /\ last_answer' = [ev |-> ev, what |-> what]
    /\ last_body' = body
    /\ faults' = IF ev = "raise" \/ what = "OVER_QUERY_LIMIT" THEN faults + 1 ELSE faults
    /\ LET success == ev = "status" /\ what \in {"OK", "ZERO_RESULTS"} IN
       /\ pages' = IF url = NEARBY_SEARCH_URL /\ success /\ ~endless
                   THEN Append(pages, Served(body))
                   ELSE pages
       /\ detail_bodies' = IF url = PLACE_DETAILS_URL /\ success /\ ~endless
                           THEN Append(detail_bodies, body)
                           ELSE detail_bodies
       /\ catalogue' = IF url = PLACE_DETAILS_URL /\ success
                       THEN [p \in DOMAIN catalogue \cup {params.place_id} |->
                                IF p = params.place_id THEN body ELSE catalogue[p]]
                       ELSE catalogue
    /\ outstanding' = outstanding - 1
    /\ slept' = 0

\* mutant of OnStatus: REQUEST_DENIED is retried like a rate limit
OnStatusRetryDenied(data) ==
    LET status == Get(data, "status", "UNKNOWN") IN
    /\ Answered("status", status, data)
    /\ IF status = "OK" \/ status = "ZERO_RESULTS"
       THEN Return(data, None)
       ELSE IF status = "OVER_QUERY_LIMIT" \/ status = "REQUEST_DENIED"
       THEN exec_pc' = "sleep" /\ UNCHANGED ret
       ELSE IF status = "INVALID_REQUEST"
       THEN Return(NoData, <<"Invalid request: ", Get(data, "error_message", "Check parameters")>>)
       ELSE Return(NoData, <<"API error: ", status>>)

\* mutant of OnStatus: ZERO_RESULTS falls through to the API-error branch
OnStatusZeroIsError(data) ==
    LET status == Get(data, "status", "UNKNOWN") IN
    /\ Answered("status", status, data)
    /\ IF status = "OK"
       THEN Return(data, None)
       ELSE IF status = "OVER_QUERY_LIMIT"
       THEN exec_pc' = "sleep" /\ UNCHANGED ret
       ELSE IF status = "REQUEST_DENIED"
       THEN Return(NoData, <<"Request denied: ", Get(data, "error_message", "Check API key")>>)
       ELSE IF status = "INVALID_REQUEST"
       THEN Return(NoData, <<"Invalid request: ", Get(data, "error_message", "Check parameters")>>)
       ELSE Return(NoData, <<"API error: ", status>>)

\* lines 40-55: the status of a body decides
OnStatus(data) ==
    LET status == Get(data, "status", "UNKNOWN") IN
    /\ Answered("status", status, data)
    /\ IF status = "OK" \/ status = "ZERO_RESULTS"
       THEN Return(data, None)
       ELSE IF status = "OVER_QUERY_LIMIT"
       THEN exec_pc' = "sleep" /\ UNCHANGED ret
       ELSE IF status = "REQUEST_DENIED"
       THEN Return(NoData, <<"Request denied: ", Get(data, "error_message", "Check API key")>>)
       ELSE IF status = "INVALID_REQUEST"
       THEN Return(NoData, <<"Invalid request: ", Get(data, "error_message", "Check parameters")>>)
       ELSE Return(NoData, <<"API error: ", status>>)

\* lines 36-55: the GET returns a JSON body
ExecBody ==
    /\ exec_pc = "wait"
    /\ \E data \in Bodies : OnStatus(data)
    /\ UNCHANGED <<handler_vars, url, params, max_retries, attempt, waited, http_calls,
                   invocations>>

\* lines 57-61 and 62-66: the GET raises; last tells whether this was the
\* last attempt, final is the message returned then
OnException(what, last, final) ==
    /\ Answered("raise", what, NoData)
    /\ IF ~last
       THEN exec_pc' = "sleep" /\ UNCHANGED ret
       ELSE Return(NoData, final)

\* mutant of ExecTimeout: the last attempt is retried too (attempt < max_retries)
ExecTimeoutNeverLast ==
    /\ exec_pc = "wait"
    /\ MayFault
    /\ OnException("Timeout", ~(attempt < max_retries), <<"Request timed out">>)
    /\ UNCHANGED <<handler_vars, url, params, max_retries, attempt, waited, http_calls,
                   invocations>>

\* lines 57-61: requests.exceptions.Timeout
ExecTimeout ==
    /\ exec_pc = "wait"
    /\ MayFault
    /\ OnException("Timeout", ~(attempt < max_retries - 1), <<"Request timed out">>)
    /\ UNCHANGED <<handler_vars, url, params, max_retries, attempt, waited, http_calls,
                   invocations>>

\* lines 62-66: any other requests.exceptions.RequestException
ExecFault ==
    /\ exec_pc = "wait"
    /\ MayFault
    /\ \E e \in Faults :
          OnException("RequestException", ~(attempt < max_retries - 1),
                      <<"Network error: ", e>>)
    /\ UNCHANGED <<handler_vars, url, params, max_retries, attempt, waited, http_calls,
                   invocations>>

\* lines 47-49, 59-60, 64-65: time.sleep(BACKOFF_FACTOR ** attempt); continue
ExecBackoff ==
    /\ exec_pc = "sleep"
    /\ trace' = Append(trace, Event("sleep", Backoff(attempt)))
    /\ slept' = slept + Backoff(attempt)
    /\ attempt' = attempt + 1
    /\ exec_pc' = "for"
    /\ UNCHANGED <<handler_vars, url, params, max_retries, ret, last_answer, last_body,
                   waited, outstanding, http_calls, faults, seen_vars>>

ExecNext == ExecGet \/ ExecExhausted \/ ExecBody \/ ExecTimeout \/ ExecFault \/ ExecBackoff

\* ------------------------------------- the executor checked on its own
NoResponse == [status |-> 0, body |-> EmptyDict]
NoList == <<NoData>>
Urls == {NEARBY_SEARCH_URL, PLACE_DETAILS_URL}

\* no request has been looked at yet
HandlerIdle ==
    /\ response = NoResponse
    /\ query = <<>>
    /\ center = <<0, 0>>
    /\ radius_meters = 0
    /\ min_reviews = 0
    /\ nearby_results = NoList
    /\ error = None
    /\ place_i = 1
    /\ filtered_results = <<>>
    /\ detail_status = <<>>
    /\ kept_from = <<>>
    /\ all_results = <<>>
    /\ next_page_token = NoneStr
    /\ pages = <<>>
    /\ detail_bodies = <<>>
    /\ catalogue = EmptyDict

\* no call of the executor is in progress
FrameIdle ==
    /\ exec_pc = "idle"
    /\ url = ""
    /\ params = EmptyDict
    /\ max_retries = 0
    /\ attempt = 0
    /\ ret = NoReturn
    /\ trace = <<>>
    /\ last_answer = NoAnswer
    /\ last_body = NoData
    /\ waited = 0

WorldQuiet ==
    /\ slept = 0
    /\ outstanding = 0
    /\ http_calls = 0
    /\ faults = 0

\* lines 103-106
NextPageParams(token) == [key |-> GOOGLE_PLACES_API_KEY, pagetoken |-> token]

\* lines 119-123
DetailParams(place_id) ==
    [key |-> GOOGLE_PLACES_API_KEY, place_id |-> place_id, fields |-> DETAIL_FIELDS]

\* make_request_with_retry(url, params, max_retries) called directly
InitExec ==
    /\ pc = "direct"
    /\ request = EmptyDict
    /\ endless = FALSE
    /\ HandlerIdle
    /\ WorldQuiet
    /\ exec_pc = "for"
    /\ \/ url = PLACE_DETAILS_URL /\ params \in {DetailParams(p) : p \in PlaceIds}
       \/ url = NEARBY_SEARCH_URL /\ params \in {NextPageParams(t) : t \in Tokens}
    /\ invocations = [u \in Urls |-> IF u = url THEN 1 ELSE 0]
    /\ max_retries \in 0..MaxRetriesBound
    /\ attempt = 0
    /\ ret = NoReturn
    /\ trace = <<>>
    /\ last_answer = NoAnswer
    /\ last_body = NoData
    /\ waited = 0

SpecExec == InitExec /\ [][ExecNext]_vars

\* ------------------------------------------------------- JSON request values
\* a JSON number, a JSON string and JSON null, as they come out of get_json()
Num(n) == [num |-> n]
Text(t) == [text |-> t]
JNull == [null |-> TRUE]

Digits == [c \in {"0", "1", "2", "3", "4", "5", "6", "7", "8", "9"} |->
              CASE c = "0" -> 0 [] c = "1" -> 1 [] c = "2" -> 2 [] c = "3" -> 3
                [] c = "4" -> 4 [] c = "5" -> 5 [] c = "6" -> 6 [] c = "7" -> 7
                [] c = "8" -> 8 [] c = "9" -> 9]

RECURSIVE DigitsValue(_)
DigitsValue(t) ==
    IF t = <<>> THEN 0 ELSE 10 * DigitsValue(SubSeq(t, 1, Len(t) - 1)) + Digits[t[Len(t)]]

\* int(v) and float(v) on the values above: the number, or the exception raised
\* (surrounding whitespace and one sign are accepted in a string)
ToNumber(v) ==
    IF "num" \in DOMAIN v THEN [ok |-> TRUE, value |-> v.num]
    ELSE IF "null" \in DOMAIN v THEN [ok |-> FALSE, raises |-> "TypeError"]
    ELSE LET t == Strip(v.text)
             neg == t # <<>> /\ Head(t) = "-"
             body == IF t # <<>> /\ Head(t) \in {"-", "+"} THEN Tail(t) ELSE t
         IN  IF body # <<>> /\ \A i \in DOMAIN body : body[i] \in DOMAIN Digits
             THEN [ok |-> TRUE,
                   value |-> IF neg THEN 0 - DigitsValue(body) ELSE DigitsValue(body)]
             ELSE [ok |-> FALSE, raises |-> "ValueError"]

Min(a, b) == IF a < b THEN a ELSE b

\* ------------------------------------------------------------ filter_place
\* mutant of filter_place: the facebook.com test is missing, any website passes
filter_placeAnyWebsite(place_details, minimum) ==
    LET reviews == Get(place_details, "user_ratings_total", 0)
    IN  IF reviews < minimum THEN FALSE ELSE TRUE

\* mutant of filter_place: the website is searched as it is, letter case kept
filter_placeCaseSensitive(place_details, minimum) ==
    LET reviews == Get(place_details, "user_ratings_total", 0)
        website == Get(place_details, "website", <<>>)
    IN  IF reviews < minimum THEN FALSE
        ELSE IF Falsy(website) THEN TRUE
        ELSE IF Contains(FACEBOOK_COM, website) THEN TRUE
        ELSE FALSE

\* lines 145-158
filter_place(place_details, minimum) ==
    LET reviews == Get(place_details, "user_ratings_total", 0)
        website == Get(place_details, "website", <<>>)
    IN  IF reviews < minimum THEN FALSE
        ELSE IF Falsy(website) THEN TRUE
        ELSE IF Contains(FACEBOOK_COM, Lower(website)) THEN TRUE
        ELSE FALSE

\* lines 240-248: the entry appended for an accepted detail record
ResultEntry(details, place_id) ==
    [name |-> Get(details, "name", ""),
     address |-> Get(details, "formatted_address", ""),
     phone |-> Get(details, "formatted_phone_number", ""),
     website |-> Get(details, "website", <<>>),
     reviews |-> Get(details, "user_ratings_total", 0),
     rating |-> Get(details, "rating", 0),
     place_id |-> Get(details, "place_id", place_id)]

\* ------------------------------------------------------- the /search handler
Respond(status, body) ==
    /\ response' = [status |-> status, body |-> body]
    /\ pc' = "done"

\* the fields of the request as lines 187-191 read them
ReqQuery == Get(request, "query", <<>>)
ReqLat == Get(request, "lat", JNull)
ReqLng == Get(request, "lng", JNull)
ReqRadius == Get(request, "radius_meters", Num(DEFAULT_RADIUS))
ReqMinReviews == Get(request, "min_reviews", Num(DEFAULT_MIN_REVIEWS))

\* the conversions of lines 200-203, in order
Conversions == <<ToNumber(ReqLat), ToNumber(ReqLng), ToNumber(ReqRadius),
                 ToNumber(ReqMinReviews)>>
\* the exception the first failing conversion raises, "" when none fails
ConversionError ==
    LET bad == {i \in DOMAIN Conversions : ~Conversions[i].ok} IN
    IF bad = {} THEN ""
    ELSE Conversions[CHOOSE i \in bad : \A j \in bad : i <= j].raises

\* lines 193-196, 204-205: the message of the 400 the request is turned down
\* with, <<>> when it is not
RejectReason ==
    IF ReqQuery = None THEN <<>>
    ELSE IF Falsy(Strip(ReqQuery)) THEN <<"Business query is required">>
    ELSE IF ReqLat = JNull \/ ReqLng = JNull THEN <<"Location coordinates are required">>
    ELSE IF ConversionError = "ValueError" THEN <<"Invalid parameter types">>
    ELSE <<>>

\* lines 187, 200-203, 256-257: the exception, other than ValueError, that
\* escapes to the outer handler, "" when there is none
CrashReason ==
    IF ReqQuery = None THEN "AttributeError"
    ELSE IF RejectReason # <<>> THEN ""
    ELSE IF ConversionError = "TypeError" THEN "TypeError"
    ELSE ""

\* lines 184-205: a client error
HandlerReject ==
    /\ pc = "request"
    /\ RejectReason # <<>>
    /\ Respond(400, [error |-> RejectReason])
    /\ UNCHANGED <<given_vars, local_vars, found_vars, enrich_vars, walk_vars, frame_vars,
                   env_vars, seen_vars>>

\* lines 184-203, 256-257: the body of the handler raises
HandlerCrash ==
    /\ pc = "request"
    /\ CrashReason # ""
    /\ Respond(500, [error |-> <<"Server error: ", CrashReason>>])
    /\ UNCHANGED <<given_vars, local_vars, found_vars, enrich_vars, walk_vars, frame_vars,
                   env_vars, seen_vars>>

\* line 208
ClampRadius(r) == Min(r, MAX_RADIUS)

\* lines 184-211: the request is accepted and nearby_search is called
HandlerSearch ==
    /\ pc = "request"
    /\ RejectReason = <<>>
    /\ CrashReason = ""
    /\ query' = Strip(ReqQuery)
    /\ center' = <<Conversions[1].value, Conversions[2].value>>
    /\ radius_meters' = ClampRadius(Conversions[3].value)
    /\ min_reviews' = Conversions[4].value
    /\ pc' = "call_search"
    /\ UNCHANGED <<io_vars, found_vars, enrich_vars, walk_vars, frame_vars, env_vars,
                   seen_vars>>

\* lines 78-83
FirstPageParams(q, lat, lng, radius) ==
    [key |-> GOOGLE_PLACES_API_KEY, location |-> <<lat, lng>>, radius |-> radius,
     keyword |-> q]

\* lines 76-86: nearby_search starts and calls the executor for the first page
NearbyBegin ==
    /\ pc = "call_search"
    /\ all_results' = <<>>
    /\ Invoke(NEARBY_SEARCH_URL,
              FirstPageParams(query, center[1], center[2], radius_meters), MAX_RETRIES)
    /\ pc' = "nearby"
    /\ UNCHANGED <<io_vars, local_vars, found_vars, enrich_vars, next_page_token,
                   env_vars, pages, detail_bodies, catalogue>>

\* mutant of NearbyFailed: the entries of the earlier pages are returned with the error
NearbyFailedPartial ==
    /\ pc = "nearby"
    /\ exec_pc = "returned"
    /\ ret.error # None
    /\ nearby_results' = all_results
    /\ error' = ret.error
    /\ pc' = "searched"
    /\ Pop
    /\ UNCHANGED <<io_vars, local_vars, enrich_vars, walk_vars, env_vars, seen_vars>>

\* lines 86-89: the page failed; nearby_search returns (None, error)
NearbyFailed ==
    /\ pc = "nearby"
    /\ exec_pc = "returned"
    /\ ret.error # None
    /\ nearby_results' = NoList
    /\ error' = ret.error
    /\ pc' = "searched"
    /\ Pop
    /\ UNCHANGED <<io_vars, local_vars, enrich_vars, walk_vars, env_vars, seen_vars>>

\* mutant of NearbyNextPage: the sleep of PAGE_TOKEN_DELAY is missing
NearbyNextPageNoTokenDelay ==
    /\ pc = "nearby"
    /\ exec_pc = "returned"
    /\ ret.error = None
    /\ all_results' = all_results \o Get(ret.data, "results", <<>>)
    /\ next_page_token' = Get(ret.data, "next_page_token", NoneStr)
    /\ ~FalsyStr(next_page_token')
    /\ slept' = slept + REQUEST_DELAY
    /\ Invoke(NEARBY_SEARCH_URL, NextPageParams(next_page_token'), MAX_RETRIES)
    /\ UNCHANGED <<pc, io_vars, local_vars, found_vars, enrich_vars, outstanding,
                   http_calls, faults, pages,
                   detail_bodies, catalogue>>

\* lines 86-109 and 86 again: the page succeeded and names a next page; after
\* the two sleeps the executor is called for that page
NearbyNextPage ==
    /\ pc = "nearby"
    /\ exec_pc = "returned"
    /\ ret.error = None
    /\ all_results' = all_results \o Get(ret.data, "results", <<>>)
    /\ next_page_token' = Get(ret.data, "next_page_token", NoneStr)
    /\ ~FalsyStr(next_page_token')
    /\ slept' = slept + PAGE_TOKEN_DELAY + REQUEST_DELAY
    /\ Invoke(NEARBY_SEARCH_URL, NextPageParams(next_page_token'), MAX_RETRIES)
    /\ UNCHANGED <<pc, io_vars, local_vars, found_vars, enrich_vars, outstanding,
                   http_calls, faults, pages,
                   detail_bodies, catalogue>>

\* mutant of NearbyDone: the last page is put in front of the accumulator
NearbyDonePrepend ==
    /\ pc = "nearby"
    /\ exec_pc = "returned"
    /\ ret.error = None
    /\ all_results' = Get(ret.data, "results", <<>>) \o all_results
    /\ next_page_token' = Get(ret.data, "next_page_token", NoneStr)
    /\ FalsyStr(next_page_token')
    /\ nearby_results' = all_results'
    /\ error' = None
    /\ pc' = "searched"
    /\ Pop
    /\ UNCHANGED <<io_vars, local_vars, enrich_vars, env_vars, seen_vars>>

\* lines 86-97 and 111: the page succeeded and names no next page;
\* nearby_search returns (all_results, None)
NearbyDone ==
    /\ pc = "nearby"
    /\ exec_pc = "returned"
    /\ ret.error = None
    /\ all_results' = all_results \o Get(ret.data, "results", <<>>)
    /\ next_page_token' = Get(ret.data, "next_page_token", NoneStr)
    /\ FalsyStr(next_page_token')
    /\ nearby_results' = all_results'
    /\ error' = None
    /\ pc' = "searched"
    /\ Pop
    /\ UNCHANGED <<io_vars, local_vars, enrich_vars, env_vars, seen_vars>>

\* mutant of HandlerSearchFailed: the 500 carries a fixed text, not the failure
HandlerSearchFailedGeneric ==
    /\ pc = "searched"
    /\ error # None
    /\ Respond(500, [error |-> <<"Search failed">>])
    /\ UNCHANGED <<given_vars, local_vars, found_vars, enrich_vars, walk_vars, frame_vars,
                   env_vars, seen_vars>>

\* lines 213-214: the search failed
HandlerSearchFailed ==
    /\ pc = "searched"
    /\ error # None
    /\ Respond(500, [error |-> error])
    /\ UNCHANGED <<given_vars, local_vars, found_vars, enrich_vars, walk_vars, frame_vars,
                   env_vars, seen_vars>>

\* lines 216-217: the search found nothing
HandlerNoResults ==
    /\ pc = "searched"
    /\ error = None
    /\ nearby_results = <<>>
    /\ Respond(200, [results |-> <<>>, message |-> "No results found"])
    /\ UNCHANGED <<given_vars, local_vars, found_vars, enrich_vars, walk_vars, frame_vars,
                   env_vars, seen_vars>>

\* lines 220-222: the enrichment loop starts
HandlerEnrich ==
    /\ pc = "searched"
    /\ error = None
    /\ nearby_results # <<>>
    /\ filtered_results' = <<>>
    /\ place_i' = 1
    /\ pc' = "enrich"
    /\ UNCHANGED <<io_vars, local_vars, found_vars, detail_status, kept_from, walk_vars,
                   frame_vars, env_vars, seen_vars>>

\* lines 222-225: the place has no usable place_id
EnrichSkip ==
    /\ pc = "enrich"
    /\ place_i <= Len(nearby_results)
    /\ FalsyStr(Get(nearby_results[place_i], "place_id", NoneStr))
    /\ place_i' = place_i + 1
    /\ detail_status' = Append(detail_status, "no_id")
    /\ UNCHANGED <<pc, io_vars, local_vars, found_vars, filtered_results, kept_from,
                   walk_vars, frame_vars, env_vars, seen_vars>>

\* mutant of EnrichFetch: the sleep of REQUEST_DELAY is missing
EnrichFetchNoDelay ==
    /\ pc = "enrich"
    /\ place_i <= Len(nearby_results)
    /\ ~FalsyStr(Get(nearby_results[place_i], "place_id", NoneStr))
    /\ slept' = slept
    /\ Invoke(PLACE_DETAILS_URL, DetailParams(nearby_results[place_i].place_id), MAX_RETRIES)
    /\ pc' = "details"
    /\ UNCHANGED <<io_vars, local_vars, found_vars, enrich_vars, walk_vars, outstanding,
                   http_calls, faults, pages,
                   detail_bodies, catalogue>>

\* lines 222-231 and 119-125: sleep, then get_place_details calls the executor
EnrichFetch ==
    /\ pc = "enrich"
    /\ place_i <= Len(nearby_results)
    /\ ~FalsyStr(Get(nearby_results[place_i], "place_id", NoneStr))
    /\ slept' = slept + REQUEST_DELAY
    /\ Invoke(PLACE_DETAILS_URL, DetailParams(nearby_results[place_i].place_id), MAX_RETRIES)
    /\ pc' = "details"
    /\ UNCHANGED <<io_vars, local_vars, found_vars, enrich_vars, walk_vars, outstanding,
                   http_calls, faults, pages,
                   detail_bodies, catalogue>>

\* mutant of DetailsFailed: a failed detail fetch ends the request with a 500
DetailsFailedAborts ==
    /\ pc = "details"
    /\ exec_pc = "returned"
    /\ ret.error # None
    /\ place_i' = place_i + 1
    /\ detail_status' = Append(detail_status, "failed")
    /\ Respond(500, [error |-> ret.error])
    /\ Pop
    /\ UNCHANGED <<given_vars, local_vars, found_vars, filtered_results, kept_from, walk_vars,
                   env_vars, seen_vars>>

\* mutant of DetailsFailed: the reference whose fetch failed is fetched again
DetailsFailedFetchAgain ==
    /\ pc = "details"
    /\ exec_pc = "returned"
    /\ ret.error # None
    /\ UNCHANGED <<place_i, detail_status>>
    /\ pc' = "enrich"
    /\ Pop
    /\ UNCHANGED <<io_vars, local_vars, found_vars, filtered_results, kept_from, walk_vars,
                   env_vars, seen_vars>>

\* lines 127-128 and 233-236: the detail fetch failed; the place is skipped
DetailsFailed ==
    /\ pc = "details"
    /\ exec_pc = "returned"
    /\ ret.error # None
    /\ place_i' = place_i + 1
    /\ detail_status' = Append(detail_status, "failed")
    /\ pc' = "enrich"
    /\ Pop
    /\ UNCHANGED <<io_vars, local_vars, found_vars, filtered_results, kept_from, walk_vars,
                   env_vars, seen_vars>>

\* mutant of DetailsFetched: an accepted entry is put in front of the list
DetailsFetchedPrepend ==
    /\ pc = "details"
    /\ exec_pc = "returned"
    /\ ret.error = None
    /\ LET details == Get(ret.data, "result", EmptyDict) IN
       IF filter_place(details, min_reviews)
       THEN /\ filtered_results' =
                  <<ResultEntry(details, nearby_results[place_i].place_id)>>
                     \o filtered_results
            /\ kept_from' = <<place_i>> \o kept_from
       ELSE UNCHANGED <<filtered_results, kept_from>>
    /\ place_i' = place_i + 1
    /\ detail_status' = Append(detail_status, "fetched")
    /\ pc' = "enrich"
    /\ Pop
    /\ UNCHANGED <<io_vars, local_vars, found_vars, walk_vars, env_vars, seen_vars>>

\* mutant of DetailsFetched: a record that needed a retry is not kept
DetailsFetchedFirstTryOnly ==
    /\ pc = "details"
    /\ exec_pc = "returned"
    /\ ret.error = None
    /\ LET details == Get(ret.data, "result", EmptyDict) IN
       IF filter_place(details, min_reviews) /\ attempt = 0
       THEN /\ filtered_results' =
                  Append(filtered_results,
                         ResultEntry(details, nearby_results[place_i].place_id))
            /\ kept_from' = Append(kept_from, place_i)
       ELSE UNCHANGED <<filtered_results, kept_from>>
    /\ place_i' = place_i + 1
    /\ detail_status' = Append(detail_status, "fetched")
    /\ pc' = "enrich"
    /\ Pop
    /\ UNCHANGED <<io_vars, local_vars, found_vars, walk_vars, env_vars, seen_vars>>

\* lines 130-131 and 238-248: the detail record is filtered and, if accepted,
\* appended
DetailsFetched ==
    /\ pc = "details"
    /\ exec_pc = "returned"
    /\ ret.error = None
    /\ LET details == Get(ret.data, "result", EmptyDict) IN
       IF filter_place(details, min_reviews)
       THEN /\ filtered_results' =
                  Append(filtered_results,
                         ResultEntry(details, nearby_results[place_i].place_id))
            /\ kept_from' = Append(kept_from, place_i)
       ELSE UNCHANGED <<filtered_results, kept_from>>
    /\ place_i' = place_i + 1
    /\ detail_status' = Append(detail_status, "fetched")
    /\ pc' = "enrich"
    /\ Pop
    /\ UNCHANGED <<io_vars, local_vars, found_vars, walk_vars, env_vars, seen_vars>>

\* lines 250-254: the loop is over
EnrichDone ==
    /\ pc = "enrich"
    /\ place_i > Len(nearby_results)
    /\ Respond(200, [results |-> filtered_results,
                     total_found |-> Len(nearby_results),
                     filtered_count |-> Len(filtered_results)])
    /\ UNCHANGED <<given_vars, local_vars, found_vars, enrich_vars, walk_vars, frame_vars,
                   env_vars, seen_vars>>

\* ------------------------------------------------------ incoming requests
Queries == {None, <<" ">>, <<" ", "b", "k", " ">>}
Latitudes == {JNull, Num(40), Text(<<"x">>)}
Longitudes == {Num(0 - 74)}
Radii == {Num(0 - 1), Num(100000)}
MinReviews == {Text(<<" ", "2", "0">>), Text(<<"2", "x">>)}

\* a key that is absent, or present with a value of S
Optional(k, S) == {EmptyDict} \cup {[x \in {k} |-> v] : v \in S}

\* the JSON bodies tried: any subset of the keys, each with a value of its kind
Requests ==
    {q @@ la @@ ln @@ ra @@ mr :
        q \in Optional("query", Queries), la \in Optional("lat", Latitudes),
        ln \in Optional("lng", Longitudes), ra \in Optional("radius_meters", Radii),
        mr \in Optional("min_reviews", MinReviews)}

\* a request arrives at /search
Init ==
    /\ pc = "request"
    /\ request \in Requests
    /\ endless = FALSE
    /\ HandlerIdle
    /\ FrameIdle
    /\ WorldQuiet
    /\ invocations = [u \in Urls |-> 0]

WalkNext == NearbyBegin \/ NearbyFailed \/ NearbyNextPage \/ NearbyDone

EnrichNext == EnrichSkip \/ EnrichFetch \/ DetailsFailed \/ DetailsFetched \/ EnrichDone

Next ==
    \/ HandlerReject \/ HandlerCrash \/ HandlerSearch
    \/ HandlerSearchFailed \/ HandlerNoResults \/ HandlerEnrich
    \/ WalkNext
    \/ EnrichNext
    \/ ExecNext

Spec == Init /\ [][Next]_vars

\* ---------------------------------------- nearby_search checked on its own
\* the values search() passes for a request of Requests that it accepts
AcceptedRadii == {ClampRadius(ToNumber(r).value) : r \in Radii \cup {Num(DEFAULT_RADIUS)}}
AcceptedMinReviews ==
    {ToNumber(m).value : m \in {m \in MinReviews \cup {Num(DEFAULT_MIN_REVIEWS)} :
                                   ToNumber(m).ok}}

\* nearby_search(query, lat, lng, radius_meters) is about to run
InitWalk ==
    /\ pc = "call_search"
    /\ request = EmptyDict
    /\ endless = FALSE
    /\ response = NoResponse
    /\ query = <<"b", "k">>
    /\ center = <<40, 0 - 74>>
    /\ radius_meters \in AcceptedRadii
    /\ min_reviews = 0
    /\ nearby_results = NoList
    /\ error = None
    /\ place_i = 1
    /\ filtered_results = <<>>
    /\ detail_status = <<>>
    /\ kept_from = <<>>
    /\ all_results = <<>>
    /\ next_page_token = NoneStr
    /\ pages = <<>>
    /\ detail_bodies = <<>>
    /\ catalogue = EmptyDict
    /\ FrameIdle
    /\ WorldQuiet
    /\ invocations = [u \in Urls |-> 0]

SpecWalk == InitWalk /\ [][WalkNext \/ ExecNext]_vars

\* ------------------------------------ the enrichment loop checked on its own
\* the for loop of lines 222-248 is about to run over a non-empty list
InitEnrich ==
    /\ pc = "enrich"
    /\ request = EmptyDict
    /\ endless = FALSE
    /\ response = NoResponse
    /\ query = <<"b", "k">>
    /\ center = <<40, 0 - 74>>
    /\ radius_meters = DEFAULT_RADIUS
    /\ min_reviews \in AcceptedMinReviews
    /\ nearby_results \in SeqsUpTo(PlaceEntries, MaxPlaces) \ {<<>>}
    /\ error = None
    /\ place_i = 1
    /\ filtered_results = <<>>
    /\ detail_status = <<>>
    /\ kept_from = <<>>
    /\ all_results = nearby_results
    /\ next_page_token = NoneStr
    /\ pages = <<[results |-> nearby_results, token |-> NoneStr]>>
    /\ detail_bodies = <<>>
    /\ catalogue = EmptyDict
    /\ FrameIdle
    /\ WorldQuiet
    /\ invocations = [u \in Urls |-> IF u = NEARBY_SEARCH_URL THEN 1 ELSE 0]

SpecEnrich == InitEnrich /\ [][EnrichNext \/ ExecNext]_vars

\* ------------------------------- the pipeline behind an accepted request
\* a data set of the remote: p1 has enough reviews and no website, p2 has a
\* website of its own
Shops ==
    [p \in PlaceIds |->
        [status |-> "OK",
         result |-> IF p = "p1"
                    THEN [place_id |-> p, name |-> "Shop", user_ratings_total |-> 25]
                    ELSE [place_id |-> p, name |-> "Shop", user_ratings_total |-> 25,
                          website |-> <<"e", "x", ".", "c", "o", "m">>]]]

\* line 211 is about to call nearby_search for an accepted request
AcceptedRequest(min, data, unbounded) ==
    /\ pc = "call_search"
    /\ request = EmptyDict
    /\ endless = unbounded
    /\ response = NoResponse
    /\ query = <<"b", "k">>
    /\ center = <<40, 0 - 74>>
    /\ radius_meters = DEFAULT_RADIUS
    /\ min_reviews = min
    /\ nearby_results = NoList
    /\ error = None
    /\ place_i = 1
    /\ filtered_results = <<>>
    /\ detail_status = <<>>
    /\ kept_from = <<>>
    /\ all_results = <<>>
    /\ next_page_token = NoneStr
    /\ pages = <<>>
    /\ detail_bodies = <<>>
    /\ catalogue = data
    /\ FrameIdle
    /\ WorldQuiet
    /\ invocations = [u \in Urls |-> 0]

InitPipeline == AcceptedRequest(20, Shops, FALSE)

PipelineNext ==
    \/ WalkNext
    \/ HandlerSearchFailed \/ HandlerNoResults \/ HandlerEnrich
    \/ EnrichNext
    \/ ExecNext

SpecPipeline == InitPipeline /\ [][PipelineNext]_vars

\* ------------------------- nearby_search against a remote that never stops
InitLive == AcceptedRequest(0, EmptyDict, TRUE)

LiveNext == WalkNext \/ ExecNext

\* the program is one thread that always takes its next step, and every HTTP
\* call returns: a step that stays possible is taken
SpecLive == InitLive /\ [][LiveNext]_vars /\ WF_vars(LiveNext)

\* --------------------------------------- filter_place checked on its own
\* websites tried: None, empty, facebook.com in lower, upper and mixed case
\* and inside a longer string, a near miss, and another site
FilterWebsites ==
    {None, <<>>, FACEBOOK_COM,
     <<"F", "A", "C", "E", "B", "O", "O", "K", ".", "C", "O", "M">>,
     <<"m", ".", "F", "a", "c", "e", "B", "o", "o", "k", ".", "c", "o", "m", "/", "x">>,
     <<"f", "a", "c", "e", "b", "o", "o", "k", ".", "c", "o">>,
     <<"e", "x", ".", "c", "o", "m">>}

\* detail records tried: each of user_ratings_total and website absent or present
FilterInputs ==
    {[place_id |-> "p1"] @@ r @@ w :
        r \in Optional("user_ratings_total", 0..MaxReviews),
        w \in Optional("website", FilterWebsites)}

\* get_place_details has just returned the record of the only reference, and
\* line 239 is about to call filter_place(details, min_reviews)
InitFilter ==
    /\ pc = "details"
    /\ request = EmptyDict
    /\ endless = FALSE
    /\ response = NoResponse
    /\ query = <<"b", "k">>
    /\ center = <<40, 0 - 74>>
    /\ radius_meters = DEFAULT_RADIUS
    /\ min_reviews \in (0 - 1)..MaxReviews
    /\ nearby_results = <<[place_id |-> "p1"]>>
    /\ error = None
    /\ place_i = 1
    /\ filtered_results = <<>>
    /\ detail_status = <<>>
    /\ kept_from = <<>>
    /\ all_results = nearby_results
    /\ next_page_token = NoneStr
    /\ pages = <<[results |-> nearby_results, token |-> NoneStr]>>
    /\ exec_pc = "returned"
    /\ url = PLACE_DETAILS_URL
    /\ params = DetailParams("p1")
    /\ max_retries = MAX_RETRIES
    /\ attempt = 0
    /\ \E d \in FilterInputs : ret = [data |-> [status |-> "OK", result |-> d], error |-> None]
    /\ trace = <<Event("get", 0), Event("answer", 0)>>
    /\ last_answer = [ev |-> "status", what |-> "OK"]
    /\ last_body = ret.data
    /\ detail_bodies = <<ret.data>>
    /\ catalogue = [p \in {"p1"} |-> ret.data]
    /\ waited = REQUEST_DELAY
    /\ slept = 0
    /\ outstanding = 0
    /\ http_calls = 2
    /\ faults = 0
    /\ invocations = [u \in Urls |-> 1]

SpecFilter == InitFilter /\ [][DetailsFetched \/ EnrichDone]_vars

\* ===================================================== claims: executor
Gets == {i \in DOMAIN trace : trace[i].ev = "get"}
Answers == {i \in DOMAIN trace : trace[i].ev = "answer"}
Sleeps == {i \in DOMAIN trace : trace[i].ev = "sleep"}

SuccessStatuses == {"OK", "ZERO_RESULTS"}
\* an answer after which the executor may go on to the next iteration
Retryable(a) ==
    \/ a.ev = "raise"
    \/ a.ev = "status" /\ a.what = "OVER_QUERY_LIMIT"
\* a body whose status is neither a success nor OVER_QUERY_LIMIT
Terminal(a) ==
    a.ev = "status" /\ a.what \notin SuccessStatuses \cup {"OVER_QUERY_LIMIT"}
\* the last event of the invocation so far is the answer to its last GET
AnswerIsLastEvent == trace # <<>> /\ trace[Len(trace)] = Event("answer", attempt)

\* C1: one invocation of make_request_with_retry issues at most max_retries
\* HTTP GETs, whatever the remote answers.
C1_AtMostMaxRetriesCalls == Cardinality(Gets) <= max_retries

C1_Witness ==
    /\ exec_pc = "returned"
    /\ max_retries = 3
    /\ Cardinality(Gets) = 3
    /\ Cardinality(Sleeps) = 2
    /\ last_answer.what = "REQUEST_DENIED"

\* C2: once a GET, at any attempt index, is answered with a terminal status,
\* the executor has returned a failure and that answer stays the last event
\* of the invocation: no GET and no sleep follows it.
C2_TerminalReturnsAtOnce ==
    Terminal(last_answer) =>
        /\ AnswerIsLastEvent
        /\ exec_pc = "returned"
        /\ ret.data = NoData
        /\ ret.error # None

C2_Witness ==
    /\ exec_pc = "returned"
    /\ Terminal(last_answer)
    /\ last_answer.what = "UNKNOWN"
    /\ attempt = 2
    /\ Cardinality(Sleeps) = 2

\* C3: once a GET is answered with status OK or ZERO_RESULTS, the executor
\* has returned that body as data with no error, and that answer stays the
\* last event of the invocation.
C3_SuccessReturnsPayload ==
    (last_answer.ev = "status" /\ last_answer.what \in SuccessStatuses) =>
        /\ AnswerIsLastEvent
        /\ exec_pc = "returned"
        /\ ret = [data |-> last_body, error |-> None]
        /\ last_body.status = last_answer.what

C3_Witness ==
    /\ exec_pc = "returned"
    /\ last_answer = [ev |-> "status", what |-> "ZERO_RESULTS"]
    /\ attempt = 1
    /\ ret.error = None

\* C4: every backoff sleep follows the retryable answer of an attempt k,
\* lasts BACKOFF_FACTOR^k seconds, and is followed by the GET of attempt k+1.
C4_SleepsOnlyBetweenAttempts ==
    \A i \in Sleeps :
        /\ i > 1
        /\ trace[i - 1].ev = "answer"
        /\ trace[i].n = Seconds(Pow(BACKOFF_FACTOR, trace[i - 1].n))
        /\ IF i < Len(trace)
           THEN trace[i + 1] = Event("get", trace[i - 1].n + 1)
           ELSE /\ Retryable(last_answer)
                /\ exec_pc = "for"
                /\ attempt = trace[i - 1].n + 1
                /\ attempt < max_retries

\* C5: when the executor has returned and its last attempt (hence every
\* attempt) ended in a retryable condition, it returned a failure after
\* exactly max_retries GETs, with the message the last attempt decides: timed
\* out, network error, or max retries exceeded; with max_retries = 0 it is max
\* retries exceeded after no GET at all.
C5_ExhaustedFailure ==
    (exec_pc = "returned" /\ (Retryable(last_answer) \/ last_answer = NoAnswer)) =>
        /\ ret.data = NoData
        /\ Cardinality(Gets) = max_retries
        /\ Cardinality(Answers) = max_retries
        /\ last_answer = NoAnswer =>
              (max_retries = 0 /\ trace = <<>> /\ ret.error = <<"Max retries exceeded">>)
        /\ last_answer.what = "Timeout" => ret.error = <<"Request timed out">>
        /\ last_answer.what = "RequestException" =>
              (Len(ret.error) = 2 /\ ret.error[1] = "Network error: "
                  /\ ret.error[2] \in Faults)
        /\ last_answer.what = "OVER_QUERY_LIMIT" => ret.error = <<"Max retries exceeded">>

C5_Witness ==
    /\ exec_pc = "returned"
    /\ max_retries = 3
    /\ Cardinality(Answers) = 3
    /\ last_answer.what = "Timeout"
    /\ ret.error = <<"Request timed out">>

C5_WitnessZero ==
    /\ exec_pc = "returned"
    /\ max_retries = 0
    /\ ret.error = <<"Max retries exceeded">>

\* ================================================ claims: nearby_search
RECURSIVE Flatten(_)
Flatten(ss) == IF ss = <<>> THEN <<>> ELSE Head(ss) \o Flatten(Tail(ss))

PageResults == [k \in DOMAIN pages |-> pages[k].results]

\* C6: when the executor returns a failure for a page, first or later, the
\* next step is nearby_search returning (None, that error): no further page
\* is requested, no HTTP call is made and none of the entries accumulated from
\* earlier pages is returned.
C6_AllOrNothing ==
    [][(pc = "nearby" /\ exec_pc = "returned" /\ ret.error # None) =>
          /\ pc' = "searched"
          /\ error' = ret.error
          /\ nearby_results' = NoList
          /\ invocations' = invocations
          /\ http_calls' = http_calls]_vars

C6_Witness ==
    /\ pc = "searched"
    /\ error = <<"API error: ", "UNKNOWN_ERROR">>
    /\ nearby_results = NoList
    /\ Len(pages) = 1
    /\ Len(all_results) = 2

\* C7: when every page succeeded, nearby_search returns exactly the
\* concatenation of the results the remote served, page by page and in the
\* order within each page, duplicates included.
C7_Concatenation ==
    (pc = "searched" /\ error = None) => nearby_results = Flatten(PageResults)

C7_Witness ==
    /\ pc = "searched"
    /\ error = None
    /\ PageResults = << <<[place_id |-> "p2"]>>, <<[place_id |-> "p2"]>> >>
    /\ nearby_results = <<[place_id |-> "p2"], [place_id |-> "p2"]>>

C7_WitnessOrder ==
    /\ pc = "searched"
    /\ PageResults = << <<[place_id |-> "p2"], [place_id |-> "p1"]>>, <<>> >>
    /\ nearby_results = <<[place_id |-> "p2"], [place_id |-> "p1"]>>

\* C8: (a) when no call met a retryable condition and the search succeeded,
\* nearby_search made one HTTP call per page served, every page but the last
\* carried a token and the last carried none; (b) every call after the first
\* page carries exactly {key, pagetoken} with the token of the page served
\* last, and its first attempt is issued after at least PAGE_TOKEN_DELAY of
\* sleep since that page was received.
C8_Pagination ==
    /\ (pc = "searched" /\ error = None /\ faults = 0) =>
          /\ http_calls = Len(pages)
          /\ invocations[NEARBY_SEARCH_URL] = Len(pages)
          /\ \A k \in DOMAIN pages : FalsyStr(pages[k].token) <=> k = Len(pages)
    /\ (exec_pc = "wait" /\ url = NEARBY_SEARCH_URL /\ invocations[NEARBY_SEARCH_URL] > 1) =>
          /\ DOMAIN params = {"key", "pagetoken"}
          /\ params.key = GOOGLE_PLACES_API_KEY
          /\ pages # <<>>
          /\ params.pagetoken = pages[Len(pages)].token
          /\ attempt = 0 => waited >= PAGE_TOKEN_DELAY

C8_Witness ==
    /\ pc = "searched"
    /\ error = None
    /\ faults = 0
    /\ Len(pages) = 2
    /\ pages[1].token = "tokB"
    /\ http_calls = 2

\* ============================================ claims: the enrichment loop
Failed == {i \in DOMAIN detail_status : detail_status[i] = "failed"}

\* C9: when the detail fetch of a reference failed, the request still ends
\* with a success response: every reference was handled, each reference with
\* a place_id got its own call of the executor, no entry of the results comes
\* from a failed reference, and total_found counts every reference.
C9_FailuresIsolated ==
    /\ \A j \in DOMAIN kept_from : kept_from[j] \notin Failed
    /\ (pc = "done" /\ Failed # {}) =>
          /\ response.status = 200
          /\ Len(detail_status) = Len(nearby_results)
          /\ invocations[PLACE_DETAILS_URL] =
                Cardinality({i \in DOMAIN detail_status : detail_status[i] # "no_id"})
          /\ response.body.results = filtered_results
          /\ Len(kept_from) = Len(filtered_results)
          /\ response.body.total_found = Len(nearby_results)

C9_Witness ==
    /\ pc = "done"
    /\ detail_status = <<"failed", "fetched">>
    /\ response.status = 200
    /\ response.body.total_found = 2
    /\ response.body.filtered_count = 1
    /\ response.body.results[1].reviews = 25
    /\ response.body.results[1].website = <<>>

\* the filter predicate, on an entry of the results
EntryPasses(e) ==
    /\ e.reviews >= min_reviews
    /\ \/ e.website = None
       \/ e.website = <<>>
       \/ Contains(FACEBOOK_COM, Lower(e.website))

\* C10: at every step of the loop and in the response, every entry of the
\* results has reviews >= min_reviews and a website that is None, empty or
\* contains facebook.com in any letter case.
C10_ResultsPassFilter ==
    /\ \A j \in DOMAIN filtered_results : EntryPasses(filtered_results[j])
    /\ (pc = "done" /\ "results" \in DOMAIN response.body) =>
          \A j \in DOMAIN response.body.results : EntryPasses(response.body.results[j])

C10_Witness ==
    /\ pc = "done"
    /\ min_reviews = 20
    /\ detail_status = <<"fetched", "fetched">>
    /\ Len(response.body.results) = 1
    /\ response.body.results[1].reviews = 25
    /\ response.body.results[1].website # <<>>
    /\ response.body.results[1].website # None

\* ========================================== claims: results of the handler
\* the reference filter predicate: enough reviews (a missing count is 0) and
\* a website that is absent, None, empty, or names facebook.com in any case
FoldsTo(c, l) == c = l \/ (c \in DOMAIN UpperToLower /\ UpperToLower[c] = l)
NamesFacebook(w) ==
    \E i \in 0..(Len(w) - Len(FACEBOOK_COM)) :
        \A j \in DOMAIN FACEBOOK_COM : FoldsTo(w[i + j], FACEBOOK_COM[j])
ReferencePredicate(d, minimum) ==
    /\ (IF "user_ratings_total" \in DOMAIN d THEN d.user_ratings_total ELSE 0) >= minimum
    /\ \/ "website" \notin DOMAIN d
       \/ d.website = None
       \/ d.website = <<>>
       \/ NamesFacebook(d.website)

\* the references handled so far whose detail fetch succeeded, and the record
\* the remote served for each (the k-th success is the k-th body served)
Fetched == {i \in DOMAIN detail_status : detail_status[i] = "fetched"}
RecordOf(i) ==
    LET body == detail_bodies[Cardinality({j \in Fetched : j <= i})]
    IN  IF "result" \in DOMAIN body THEN body.result ELSE EmptyDict
Accepted == {i \in Fetched : ReferencePredicate(RecordOf(i), min_reviews)}

\* C11: the results are exactly the references whose detail fetch succeeded
\* and whose record passes the filter predicate, each once per occurrence, in
\* the order of the references; the success response returns that list.
C11_ResultsAreAcceptedInOrder ==
    /\ Len(filtered_results) = Len(kept_from)
    /\ Len(kept_from) = Cardinality(Accepted)
    /\ \A j \in DOMAIN kept_from :
          /\ kept_from[j] \in Accepted
          /\ \A k \in DOMAIN kept_from : j < k => kept_from[j] < kept_from[k]
          /\ LET d == RecordOf(kept_from[j]) IN
             /\ filtered_results[j].place_id =
                   (IF "place_id" \in DOMAIN d THEN d.place_id
                    ELSE nearby_results[kept_from[j]].place_id)
             /\ filtered_results[j].reviews =
                   (IF "user_ratings_total" \in DOMAIN d THEN d.user_ratings_total ELSE 0)
             /\ filtered_results[j].website =
                   (IF "website" \in DOMAIN d THEN d.website ELSE <<>>)
    /\ (pc = "done" /\ response.status = 200 /\ "total_found" \in DOMAIN response.body) =>
          response.body.results = filtered_results

C11_Witness ==
    /\ pc = "done"
    /\ nearby_results = <<[place_id |-> "p2"], [place_id |-> "p1"]>>
    /\ detail_status = <<"fetched", "fetched">>
    /\ Len(response.body.results) = 2
    /\ response.body.results[1].place_id = "p2"
    /\ response.body.results[2].place_id = "p1"

\* C12: every success response carries results, total_found and
\* filtered_count; total_found is the number of references the search walk
\* returned and filtered_count the length of results. This holds also when
\* the search walk succeeded and found no place.
C12_SuccessCarriesCounts ==
    (pc = "done" /\ response.status = 200) =>
        /\ {"results", "total_found", "filtered_count"} \subseteq DOMAIN response.body
        /\ response.body.total_found = Len(nearby_results)
        /\ response.body.filtered_count = Len(response.body.results)

\* ================================================== claims: filter_place
\* C13: filter_place(details, min_reviews) is false when user_ratings_total
\* (0 when missing) is below min_reviews; otherwise true when the website is
\* absent, None or empty; otherwise true when the website names facebook.com
\* in any letter case; otherwise false. The record counts as accepted when
\* the loop appended it.
C13_FilterTruthTable ==
    (pc \in {"enrich", "done"} /\ detail_status = <<"fetched">>) =>
        LET d == detail_bodies[1].result
            reviews == IF "user_ratings_total" \in DOMAIN d THEN d.user_ratings_total ELSE 0
            expected ==
                IF reviews < min_reviews THEN FALSE
                ELSE IF "website" \notin DOMAIN d THEN TRUE
                ELSE IF d.website = None \/ d.website = <<>> THEN TRUE
                ELSE IF NamesFacebook(d.website) THEN TRUE
                ELSE FALSE
        IN  (filtered_results # <<>>) <=> expected

C13_Witness ==
    /\ pc = "enrich"
    /\ detail_status = <<"fetched">>
    /\ min_reviews = 2
    /\ {"user_ratings_total", "website"} \subseteq DOMAIN detail_bodies[1].result
    /\ detail_bodies[1].result.user_ratings_total = 2
    /\ detail_bodies[1].result.website =
          <<"m", ".", "F", "a", "c", "e", "B", "o", "o", "k", ".", "c", "o", "m", "/", "x">>
    /\ Len(filtered_results) = 1

\* ============================================ claims: the /search handler
\* the request has no query key, or a query that is a blank string
QueryMissingOrBlank ==
    \/ "query" \notin DOMAIN request
    \/ request.query # None /\ Strip(request.query) = <<>>
\* the request has no lat, or no lng (the key is absent, or null)
CoordinateMissing ==
    \/ "lat" \notin DOMAIN request
    \/ "lng" \notin DOMAIN request
    \/ request.lat = JNull
    \/ request.lng = JNull

\* C14: a request whose query is missing or blank, or whose lat or lng is
\* missing, is answered with a 400, and no executor invocation and no HTTP
\* call is made for it.
C14_MissingInputIsClientError ==
    (QueryMissingOrBlank \/ CoordinateMissing) =>
        /\ http_calls = 0
        /\ \A u \in Urls : invocations[u] = 0
        /\ pc \in {"request", "done"}
        /\ pc = "done" => response.status = 400

\* C15: the radius a first-page search call carries lies in 0..50000, whatever
\* radius_meters the request asked for; 100000 is sent as 50000.
C15_RadiusClamped ==
    (url = NEARBY_SEARCH_URL /\ "radius" \in DOMAIN params) =>
        /\ params.radius >= 0
        /\ params.radius <= MAX_RADIUS
        /\ ReqRadius = Num(100000) => params.radius = 50000

\* C16: once the search phase has failed, on the first page or a later one,
\* no place-details call is made for the request, and the response is a 500
\* that carries the message of that failure.
C16_SearchFailureIsServerError ==
    (pc \in {"searched", "enrich", "details", "done"} /\ error # None) =>
        /\ pc \in {"searched", "done"}
        /\ invocations[PLACE_DETAILS_URL] = 0
        /\ detail_status = <<>>
        /\ pc = "done" => response = [status |-> 500, body |-> [error |-> error]]

C16_Witness ==
    /\ pc = "done"
    /\ response.status = 500
    /\ response.body.error = <<"Max retries exceeded">>
    /\ Len(pages) = 1
    /\ Len(all_results) = 2
    /\ invocations[NEARBY_SEARCH_URL] = 2

\* ============================================== claims: repeated requests
\* what a request returns for the references refs when the remote's data set
\* is data and every detail fetch succeeds
RECURSIVE ExpectedResults(_, _, _)
ExpectedResults(refs, data, minimum) ==
    IF refs = <<>> THEN <<>>
    ELSE LET ref == Head(refs)
             rest == ExpectedResults(Tail(refs), data, minimum)
         IN  IF "place_id" \notin DOMAIN ref THEN rest
             ELSE IF ref.place_id \notin DOMAIN data THEN rest
             ELSE LET body == data[ref.place_id]
                      d == IF "result" \in DOMAIN body THEN body.result ELSE EmptyDict
                  IN  IF ReferencePredicate(d, minimum)
                      THEN <<ResultEntry(d, ref.place_id)>> \o rest
                      ELSE rest

\* the detail fetch of the current reference has returned after meeting
\* nothing but transient conditions (rate limits, timeouts, transport faults),
\* and the data set holds a record for the place that passes the filter
TransientOnAcceptable ==
    /\ pc = "details"
    /\ exec_pc = "returned"
    /\ Retryable(last_answer)
    /\ params.place_id \in DOMAIN catalogue
    /\ LET body == catalogue[params.place_id] IN
       ReferencePredicate(IF "result" \in DOMAIN body THEN body.result ELSE EmptyDict,
                          min_reviews)

C18_SearchReturns == <>(pc \in {"searched", "done"})

\* ======================================== claims: order of the remote calls
\* the search walk is over and succeeded: every invocation for a search page
\* was served, and the last page served announced no further page
WalkSucceeded ==
    /\ error = None
    /\ pages # <<>>
    /\ Len(pages) = invocations[NEARBY_SEARCH_URL]
    /\ FalsyStr(pages[Len(pages)].token)
    /\ nearby_results = Flatten(PageResults)

\* C19: at most one HTTP call is outstanding at any time; a place-details
\* call is made only after the last search page has been served successfully;
\* and each place-details invocation of the executor starts when the previous
\* call has returned, after a sleep of REQUEST_DELAY.
C19_SequentialAndPhaseOrdered ==
    /\ [](outstanding \in {0, 1})
    /\ []((url = PLACE_DETAILS_URL \/ invocations[PLACE_DETAILS_URL] > 0) => WalkSucceeded)
    /\ [][invocations'[PLACE_DETAILS_URL] # invocations[PLACE_DETAILS_URL] =>
            /\ exec_pc = "idle"
            /\ outstanding = 0
            /\ slept' = slept + REQUEST_DELAY
            /\ exec_pc' = "for"
            /\ url' = PLACE_DETAILS_URL]_vars

C19_Witness ==
    /\ exec_pc = "wait"
    /\ url = PLACE_DETAILS_URL
    /\ outstanding = 1
    /\ invocations[PLACE_DETAILS_URL] = 2
    /\ Len(pages) = 2
    /\ waited = REQUEST_DELAY

\* ================================================= claims: number of calls
HasPlaceId(ref) == "place_id" \in DOMAIN ref /\ ~FalsyStr(ref.place_id)

\* the references handled so far, or being handled, that have a place_id
Looked ==
    {i \in 1..Len(nearby_results) :
        /\ HasPlaceId(nearby_results[i])
        /\ i <= Len(detail_status) + (IF pc = "details" THEN 1 ELSE 0)}

\* C20: after a successful search walk of P pages and N entries, the
\* enrichment makes one executor invocation per entry that has a place_id, in
\* the order of the entries, and none for an entry without one, which
\* total_found still counts; each invocation makes at most MAX_RETRIES HTTP
\* calls, so the request makes at most MAX_RETRIES * (P + N) in all.
C20_OneInvocationPerReference ==
    /\ []((pc \in {"enrich", "details", "done"} /\ error = None /\ nearby_results # <<>>) =>
            /\ invocations[PLACE_DETAILS_URL] = Cardinality(Looked)
            /\ invocations[NEARBY_SEARCH_URL] = Len(pages)
            /\ \A i \in DOMAIN detail_status :
                  detail_status[i] = "no_id" <=> ~HasPlaceId(nearby_results[i])
            /\ http_calls <= MAX_RETRIES *
                  (invocations[NEARBY_SEARCH_URL] + invocations[PLACE_DETAILS_URL])
            /\ http_calls <= MAX_RETRIES * (Len(pages) + Len(nearby_results))
            /\ pc = "done" =>
                  /\ Len(detail_status) = Len(nearby_results)
                  /\ response.body.total_found = Len(nearby_results))
    /\ [][invocations'[PLACE_DETAILS_URL] # invocations[PLACE_DETAILS_URL] =>
            /\ invocations'[PLACE_DETAILS_URL] = invocations[PLACE_DETAILS_URL] + 1
            /\ place_i = Len(detail_status) + 1
            /\ HasPlaceId(nearby_results[place_i])
            /\ params'.place_id = nearby_results[place_i].place_id]_vars

C20_Witness ==
    /\ pc = "done"
    /\ detail_status = <<"no_id", "failed">>
    /\ response.body.total_found = 2
    /\ invocations[PLACE_DETAILS_URL] = 1
    /\ Len(pages) = 1
    /\ http_calls = 1 + MAX_RETRIES

====
